---------------------------- MODULE Spec2Model ----------------------------
(***************************************************************************)
(* GST reconciliation (src/app.py): invoice-number cleaning, amount        *)
(* preparation, grouping of duplicate lines, outer merge on the composite  *)
(* key, tolerance classification and the Excel report.                     *)
(*                                                                         *)
(* Text is a sequence of one-character strings.  A missing text cell (NaN) *)
(* is the one-element sequence NaN, which is no text over any alphabet.    *)
(* A float64 is a record [nan, n, off]: n hundredths plus off units of     *)
(* 1/(100 * 2^UnitBits), rounded as IEEE-754 binary64 rounds.              *)
(***************************************************************************)
EXTENDS Integers, Sequences, FiniteSets, TLC

VARIABLES
    pc,              \* position of the run in the script (or the cleaner harness)
    df_portal,       \* portal table, a sequence of rows (column name -> cell)
    df_books,        \* books table
    portal_grouped,  \* set of aggregated portal rows
    books_grouped,   \* set of aggregated books rows
    comparison,      \* set of merged rows
    matched,         \* MATCHED rows with Tax_Diff, GST_Diff, Value_Status
    perfect, mismatch, missing_books, missing_portal,
    report,          \* sheet name -> exported rows, the workbook written so far
    error,           \* "none" or the exception that ended the run
    ran,             \* the stages completed so far, in order
    invoice,         \* clean_invoice_number: the argument
    invoice_cleaned, \* clean_invoice_number(invoice)
    recleaned,       \* clean_invoice_number(invoice_cleaned)
    variant,         \* a raw invoice number that differs from invoice only by
                     \* case, removed characters or leading zeros
    variant_cleaned  \* clean_invoice_number(variant)

vars == <<pc, df_portal, df_books, portal_grouped, books_grouped, comparison,
          matched, perfect, mismatch, missing_books, missing_portal, report,
          error, ran, invoice, invoice_cleaned, recleaned, variant,
          variant_cleaned>>

runVars == <<df_portal, df_books, portal_grouped, books_grouped, comparison,
             matched, perfect, mismatch, missing_books, missing_portal,
             report, error, ran>>

cleanVars == <<invoice, invoice_cleaned, recleaned, variant, variant_cleaned>>

-----------------------------------------------------------------------------
(* Bounds *)

MaxLen == 3        \* longest raw invoice number given to the cleaner harness
MaxRows == 2       \* most rows of the portal table
MaxBooksRows == 1  \* most rows of the books table where the portal side varies

-----------------------------------------------------------------------------
(* Text *)

NaN == <<"NaN">>
TAB == "\t"

\* str(x) / astype(str): a missing cell becomes the text "nan"
Str(x) == IF x = NaN THEN <<"n", "a", "n">> ELSE x

\* the characters of the class [-/_ .,@#$%^&*()\[\]{}]
RemovedChars ==
    {"-", "/", "_", " ", ".", ",", "@", "#", "$", "%", "^", "&", "*",
     "(", ")", "[", "]", "{", "}"}

\* the characters str.strip() takes off both ends
Whitespace == {" ", TAB, "\n", "\r"}

LowerLetters == <<"a","b","c","d","e","f","g","h","i","j","k","l","m",
                  "n","o","p","q","r","s","t","u","v","w","x","y","z">>
UpperLetters == <<"A","B","C","D","E","F","G","H","I","J","K","L","M",
                  "N","O","P","Q","R","S","T","U","V","W","X","Y","Z">>

UpperChar(c) ==
    IF \E i \in DOMAIN LowerLetters : LowerLetters[i] = c
    THEN UpperLetters[CHOOSE i \in DOMAIN LowerLetters : LowerLetters[i] = c]
    ELSE c

LowerChar(c) ==
    IF \E i \in DOMAIN UpperLetters : UpperLetters[i] = c
    THEN LowerLetters[CHOOSE i \in DOMAIN UpperLetters : UpperLetters[i] = c]
    ELSE c

\* str.upper()
Upper(s) == [i \in 1..Len(s) |-> UpperChar(s[i])]

\* str.strip(): whitespace off both ends
Strip(s) ==
    LET keep == {i \in 1..Len(s) : s[i] \notin Whitespace}
    IN  IF keep = {} THEN <<>>
        ELSE LET lo == CHOOSE i \in keep : \A j \in keep : i <= j
                 hi == CHOOSE i \in keep : \A j \in keep : j <= i
             IN  SubSeq(s, lo, hi)

\* re.sub(r'[-/_ .,@#$%^&*()\[\]{}]', '', s)
NotRemoved(c) == c \notin RemovedChars
ReSub(s) == SelectSeq(s, NotRemoved)

\* s.lstrip('0')
LStripZeros(s) ==
    LET keep == {i \in 1..Len(s) : s[i] # "0"}
    IN  IF keep = {} THEN <<>>
        ELSE SubSeq(s, CHOOSE i \in keep : \A j \in keep : i <= j, Len(s))

clean_invoice_number(x) ==
    LET invoice_str == Strip(Str(x))
        removed == ReSub(invoice_str)
        upper == Upper(removed)
        stripped == LStripZeros(upper)
    IN  IF stripped = <<>> THEN <<"0">> ELSE stripped

\* the GSTIN cleaning without astype(str): a missing GSTIN stays missing
gstin_clean_without_astype(x) == IF x = NaN THEN NaN ELSE Upper(Strip(x))

\* .astype(str).str.strip().str.upper()
gstin_clean(x) == Upper(Strip(Str(x)))

\* all texts over an alphabet, up to a length
TextsUpTo(alphabet, n) == UNION {[1..k -> alphabet] : k \in 0..n}

-----------------------------------------------------------------------------
(* float64 *)

(***************************************************************************)
(* The value of [nan |-> FALSE, n |-> n, off |-> off] is                   *)
(*     n / 100  +  off / (100 * 2^UnitBits).                               *)
(* Every float64 of magnitude 2^MinExp or more is a whole number of        *)
(* 2^-UnitBits, so it has such a form; the floats of a binade 2^e are the  *)
(* multiples of 2^(e - MantissaBits), that is of Grid(e) units.            *)
(***************************************************************************)
MantissaBits == 52   \* fraction bits of binary64
MinExp == -7         \* binade of 0.01, the smallest amount that is not 0
MaxExp == 6          \* amounts and their sums stay below 2^(MaxExp + 1)
UnitBits == MantissaBits - MinExp

RECURSIVE Pow2(_)
Pow2(k) == IF k = 0 THEN 1 ELSE 2 * Pow2(k - 1)

RECURSIVE Pow2Mod(_, _)
Pow2Mod(k, m) == IF k = 0 THEN 1 % m ELSE (2 * Pow2Mod(k - 1, m)) % m

FNaN == [nan |-> TRUE, n |-> 0, off |-> 0]
Float(n, off) == [nan |-> FALSE, n |-> n, off |-> off]
Zero == Float(0, 0)

\* whether the positive value n/100 + off/... lies below 2^e
BelowPow2(n, off, e) ==
    LET d == IF e >= 0 THEN n - 100 * Pow2(e) ELSE n * Pow2(-e) - 100
    IN  d < 0 \/ (d = 0 /\ off < 0)

\* units between neighbouring floats of the binade 2^e
Grid(e) == 100 * Pow2(e - MinExp)

\* round-to-nearest, ties-to-even, of a positive exact value to a float64
RoundPos(n, off) ==
    IF n = 0 THEN Float(0, off)     \* below 2^MinExp every multiple of a unit is a float
    ELSE
    LET e == CHOOSE x \in MinExp..MaxExp :
                 /\ ~BelowPow2(n, off, x)
                 /\ \A y \in MinExp..MaxExp : ~BelowPow2(n, off, y) => y <= x
        k == MantissaBits - e
        g == Grid(e)
        \* the exact value in units, modulo g and modulo 2g
        r  == (Pow2(e - MinExp) * ((n * Pow2Mod(k, 100)) % 100) + off) % g
        r2 == (Pow2(e - MinExp) * ((n * Pow2Mod(k, 200)) % 200) + off) % (2 * g)
    IN  IF r = 0 THEN Float(n, off)
        ELSE IF 2 * r < g \/ (2 * r = g /\ r2 < g) THEN Float(n, off - r)
        ELSE Float(n, off + g - r)

RoundF(n, off) ==
    IF n < 0 \/ (n = 0 /\ off < 0)
    THEN LET m == RoundPos(-n, -off) IN Float(-m.n, -m.off)
    ELSE RoundPos(n, off)

\* the float64 nearest to n hundredths: what a cell typed n/100 holds
FromPaise(n) == RoundF(n, 0)

AddF(a, b) == IF a.nan \/ b.nan THEN FNaN ELSE RoundF(a.n + b.n, a.off + b.off)
SubF(a, b) == IF a.nan \/ b.nan THEN FNaN ELSE RoundF(a.n - b.n, a.off - b.off)
AbsF(a) ==
    IF a.nan THEN FNaN
    ELSE IF a.n < 0 \/ (a.n = 0 /\ a.off < 0) THEN Float(-a.n, -a.off) ELSE a

\* a <= 1 (False for NaN)
LeqOne(a) == ~a.nan /\ (a.n < 100 \/ (a.n = 100 /\ a.off <= 0))

\* Series.round(2): rint(x * 100) / 100.  x * 100 lies within half a unit of the
\* whole number x.n, so rint gives x.n, and the division rounds once.
Round2(a) == IF a.nan THEN FNaN ELSE FromPaise(a.n)

\* the amount to two decimals, in hundredths
Paise(a) == a.n

-----------------------------------------------------------------------------
(* Tables *)

\* the columns the script reads from the two uploads
PortalColumns ==
    {"GSTIN of supplier", "Invoice number", "Invoice Date", "Trade/Legal name",
     "Taxable Value (₹)", "Integrated Tax(₹)", "Central Tax(₹)", "State/UT Tax(₹)"}
BooksColumns ==
    {"VENDOR GSTIN", "VENDOR INVOICE NO", "DATE", "VENDOR NAME",
     "TAXABLE VALUE", "CGST", "SGST", "IGST"}

FloatColumns == {"Taxable", "IGST", "CGST", "SGST", "TotalGST"}

\* a cell of an amount column as read_excel gives it: a number, text, or nothing
NumCell(n) == [t |-> "float", paise |-> n]
TextCell == [t |-> "str", paise |-> 0]
NaNCell == [t |-> "nan", paise |-> 0]

\* pd.to_numeric(cell, errors='coerce'): text that is no number becomes NaN
to_numeric(cell) == IF cell.t = "float" THEN FromPaise(cell.paise) ELSE FNaN

\* .fillna(0)
fillna0(x) == IF x.nan THEN Zero ELSE x

\* pd.to_numeric(col, errors='coerce').fillna(0).round(2) on one cell
prepare_amount(cell) == Round2(fillna0(to_numeric(cell)))

\* a DataFrame: its columns and its rows in order (a row maps column to cell)
DataFrame(columns, rows) == [columns |-> columns, rows |-> rows]

\* df[dst] = cells, row by row
SetColumn(df, dst, cells) ==
    DataFrame(df.columns \cup {dst},
              [i \in 1..Len(df.rows) |->
                  [c \in df.columns \cup {dst} |->
                      IF c = dst THEN cells[i] ELSE df.rows[i][c]]])

\* one assignment statement of the script: table[dst] = op(table[src...])
Stmt(side, dst, op, src) == [side |-> side, dst |-> dst, op |-> op, src |-> src]

ApplyOp(op, row, src) ==
    CASE op = "astype_str" -> Str(row[src[1]])
      [] op = "clean_invoice_number" -> clean_invoice_number(row[src[1]])
      [] op = "gstin_clean" -> gstin_clean(row[src[1]])
      [] op = "prepare_amount" -> prepare_amount(row[src[1]])
      [] op = "add3" -> AddF(AddF(row[src[1]], row[src[2]]), row[src[3]])

\* the tables after the statements run in order; a statement that reads a column
\* its table lacks raises KeyError and the rest do not run
RECURSIVE RunStatements(_, _, _)
RunStatements(stmts, P, B) ==
    IF stmts = <<>> THEN [portal |-> P, books |-> B, error |-> "none"]
    ELSE
    LET st == Head(stmts)
        df == IF st.side = "portal" THEN P ELSE B
    IN  IF \E i \in DOMAIN st.src : st.src[i] \notin df.columns
        THEN [portal |-> P, books |-> B, error |-> "KeyError"]
        ELSE
        LET new == SetColumn(df, st.dst,
                       [i \in 1..Len(df.rows) |-> ApplyOp(st.op, df.rows[i], st.src)])
        IN  IF st.side = "portal"
            THEN RunStatements(Tail(stmts), new, B)
            ELSE RunStatements(Tail(stmts), P, new)

\* lines 56-61
InvoiceCleaningStmts ==
    << Stmt("portal", "Invoice_Original", "astype_str", <<"Invoice number">>),
       Stmt("books", "Invoice_Original", "astype_str", <<"VENDOR INVOICE NO">>),
       Stmt("portal", "Invoice_Clean", "clean_invoice_number", <<"Invoice number">>),
       Stmt("books", "Invoice_Clean", "clean_invoice_number", <<"VENDOR INVOICE NO">>) >>

\* lines 64-65
GstinCleaningStmts ==
    << Stmt("portal", "GSTIN_Clean", "gstin_clean", <<"GSTIN of supplier">>),
       Stmt("books", "GSTIN_Clean", "gstin_clean", <<"VENDOR GSTIN">>) >>

\* lines 68-78
PrepareAmountsStmts ==
    << Stmt("portal", "Taxable", "prepare_amount", <<"Taxable Value (₹)">>),
       Stmt("portal", "IGST", "prepare_amount", <<"Integrated Tax(₹)">>),
       Stmt("portal", "CGST", "prepare_amount", <<"Central Tax(₹)">>),
       Stmt("portal", "SGST", "prepare_amount", <<"State/UT Tax(₹)">>),
       Stmt("portal", "TotalGST", "add3", <<"IGST", "CGST", "SGST">>),
       Stmt("books", "Taxable", "prepare_amount", <<"TAXABLE VALUE">>),
       Stmt("books", "CGST", "prepare_amount", <<"CGST">>),
       Stmt("books", "SGST", "prepare_amount", <<"SGST">>),
       Stmt("books", "IGST", "prepare_amount", <<"IGST">>),
       Stmt("books", "TotalGST", "add3", <<"CGST", "SGST", "IGST">>) >>

-----------------------------------------------------------------------------
(* GROUP DUPLICATES *)

\* 'first': the first value of the group that is not null (NaN when all are)
GroupFirst(cells) ==
    LET have == {i \in 1..Len(cells) : cells[i] # NaN}
    IN  IF have = {} THEN NaN
        ELSE cells[CHOOSE i \in have : \A j \in have : i <= j]

\* 'sum': the group's values added in row order, starting from 0.0 (pandas may
\* carry a compensation term; it changes the last bits of groups of three rows
\* or more, never the amount to two decimals)
RECURSIVE GroupSum(_)
GroupSum(cells) ==
    IF cells = <<>> THEN Zero
    ELSE AddF(GroupSum(SubSeq(cells, 1, Len(cells) - 1)), cells[Len(cells)])

portal_agg ==
    ("Trade/Legal name" :> "first" @@ "Invoice Date" :> "first" @@
     "Invoice_Original" :> "first" @@ "Taxable" :> "sum" @@ "IGST" :> "sum" @@
     "CGST" :> "sum" @@ "SGST" :> "sum" @@ "TotalGST" :> "sum")

books_agg ==
    ("VENDOR NAME" :> "first" @@ "DATE" :> "first" @@
     "Invoice_Original" :> "first" @@ "Taxable" :> "sum" @@ "IGST" :> "sum" @@
     "CGST" :> "sum" @@ "SGST" :> "sum" @@ "TotalGST" :> "sum")

GroupBy == <<"GSTIN_Clean", "Invoice_Clean">>

\* the group key of a row
KeyOf(row) == <<row[GroupBy[1]], row[GroupBy[2]]>>

\* groupby(...) keeps only rows whose key columns are not null (dropna=True)
GroupKeys(df) ==
    {KeyOf(df.rows[i]) : i \in {j \in 1..Len(df.rows) :
                                   /\ df.rows[j][GroupBy[1]] # NaN
                                   /\ df.rows[j][GroupBy[2]] # NaN}}

\* the cells of one column over the rows of a group, in row order
RECURSIVE GroupCells(_, _, _)
GroupCells(rows, key, col) ==
    IF rows = <<>> THEN <<>>
    ELSE IF KeyOf(Head(rows)) = key
         THEN <<Head(rows)[col]>> \o GroupCells(Tail(rows), key, col)
         ELSE GroupCells(Tail(rows), key, col)

Aggregate(how, cells) == IF how = "first" THEN GroupFirst(cells) ELSE GroupSum(cells)

\* df.groupby(['GSTIN_Clean', 'Invoice_Clean']).agg(agg).reset_index(): one row
\* for each key; the row order of the result is not used by the script
groupby_agg(df, agg) ==
    DataFrame({GroupBy[1], GroupBy[2]} \cup DOMAIN agg,
        {[c \in {GroupBy[1], GroupBy[2]} \cup DOMAIN agg |->
             IF c = GroupBy[1] THEN key[1]
             ELSE IF c = GroupBy[2] THEN key[2]
             ELSE Aggregate(agg[c], GroupCells(df.rows, key, c))]
         : key \in GroupKeys(df)})

-----------------------------------------------------------------------------
(* BUILD MATCH KEY & MERGE *)

\* grouped['GSTIN_Clean'] + '|' + grouped['Invoice_Clean']
BuildKey(row) == row["GSTIN_Clean"] \o <<"|">> \o row["Invoice_Clean"]

WithKey(df) ==
    DataFrame(df.columns \cup {"Key"},
        {[c \in df.columns \cup {"Key"} |-> IF c = "Key" THEN BuildKey(r) ELSE r[c]]
         : r \in df.rows})

\* the null of a column of the merged table
NullOf(col) == IF col \in FloatColumns THEN FNaN ELSE NaN

\* the name a column of one side has in the merged table
Suffixed(col, own, other, suffix) ==
    IF col # "Key" /\ col \in own /\ col \in other THEN col \o suffix ELSE col

\* one side of a row of the merged table; row is "absent" where the side has none
MergedSide(cols, other, suffix, row, present) ==
    [c \in {Suffixed(k, cols, other, suffix) : k \in cols \ {"Key"}} |->
        LET k == CHOOSE k \in cols \ {"Key"} : Suffixed(k, cols, other, suffix) = c
        IN  IF present THEN row[k] ELSE NullOf(k)]

MergedRow(L, R, key, l, r, how) ==
    ("Key" :> key @@ "_merge" :> how
     @@ MergedSide(L.columns, R.columns, "_P", l, how # "right_only")
     @@ MergedSide(R.columns, L.columns, "_B", r, how # "left_only"))

\* pd.merge(L, R, on='Key', how='outer', suffixes=('_P', '_B'), indicator=True):
\* every pair of rows with equal keys, and every row that has no partner
merge_outer(L, R) ==
    {MergedRow(L, R, l["Key"], l, r, "both")
        : <<l, r>> \in {p \in L.rows \X R.rows : p[1]["Key"] = p[2]["Key"]}}
    \cup {MergedRow(L, R, l["Key"], l, l, "left_only")
        : l \in {x \in L.rows : \A r \in R.rows : r["Key"] # x["Key"]}}
    \cup {MergedRow(L, R, r["Key"], r, r, "right_only")
        : r \in {x \in R.rows : \A l \in L.rows : l["Key"] # x["Key"]}}

StatusOf(how) ==
    CASE how = "both" -> "MATCHED"
      [] how = "left_only" -> "MISSING_IN_BOOKS"
      [] how = "right_only" -> "MISSING_IN_PORTAL"

\* row with one more column
With(row, col, val) == [c \in DOMAIN row \cup {col} |-> IF c = col THEN val ELSE row[c]]

-----------------------------------------------------------------------------
(* SPLIT DATASETS *)

\* lambda x: 'PERFECT' if (x['Tax_Diff'] <= 1 and x['GST_Diff'] <= 1) else 'MISMATCH'
ValueStatus(x) ==
    IF LeqOne(x["Tax_Diff"]) /\ LeqOne(x["GST_Diff"]) THEN "PERFECT" ELSE "MISMATCH"

Classify(row) ==
    LET a == With(row, "Tax_Diff", AbsF(SubF(row["Taxable_P"], row["Taxable_B"])))
        b == With(a, "GST_Diff", AbsF(SubF(row["TotalGST_P"], row["TotalGST_B"])))
    IN  With(b, "Value_Status", ValueStatus(b))

-----------------------------------------------------------------------------
(* CREATE EXCEL REPORT *)

\* the exported table: each export column takes one column of the subset
Export(rows, mapping) ==
    {[c \in DOMAIN mapping |-> r[mapping[c]]] : r \in rows}

PerfectExport ==
    ("Match_Key" :> "Key" @@ "GSTIN" :> "GSTIN_Clean_P" @@
     "Invoice_Clean" :> "Invoice_Clean_P" @@
     "Invoice_Original_Portal" :> "Invoice_Original_P" @@
     "Invoice_Original_Books" :> "Invoice_Original_B" @@
     "Supplier" :> "Trade/Legal name" @@ "Taxable_Value" :> "Taxable_P" @@
     "CGST" :> "CGST_P" @@ "SGST" :> "SGST_P" @@ "IGST" :> "IGST_P" @@
     "Total_GST" :> "TotalGST_P")

MismatchExport ==
    ("Match_Key" :> "Key" @@ "GSTIN" :> "GSTIN_Clean_P" @@
     "Invoice_Clean" :> "Invoice_Clean_P" @@
     "Invoice_Original_Portal" :> "Invoice_Original_P" @@
     "Invoice_Original_Books" :> "Invoice_Original_B" @@
     "Supplier" :> "Trade/Legal name" @@ "Taxable_Portal" :> "Taxable_P" @@
     "Taxable_Books" :> "Taxable_B" @@ "Taxable_Diff" :> "Tax_Diff" @@
     "GST_Portal" :> "TotalGST_P" @@ "GST_Books" :> "TotalGST_B" @@
     "GST_Diff" :> "GST_Diff")

MissingBooksExport ==
    ("Match_Key" :> "Key" @@ "GSTIN" :> "GSTIN_Clean_P" @@
     "Invoice_Clean" :> "Invoice_Clean_P" @@
     "Invoice_Original" :> "Invoice_Original_P" @@
     "Supplier" :> "Trade/Legal name" @@ "Taxable_Value" :> "Taxable_P" @@
     "Total_GST" :> "TotalGST_P")

MissingPortalExport ==
    ("Match_Key" :> "Key" @@ "GSTIN" :> "GSTIN_Clean_B" @@
     "Invoice_Clean" :> "Invoice_Clean_B" @@
     "Invoice_Original" :> "Invoice_Original_B" @@
     "Vendor" :> "VENDOR NAME" @@ "Taxable_Value" :> "Taxable_B" @@
     "Total_GST" :> "TotalGST_B")

SummarySheet(p, m, mb, mp) ==
    {[Category |-> "Perfect Match", Count |-> Cardinality(p)],
     [Category |-> "Value Mismatch", Count |-> Cardinality(m)],
     [Category |-> "Missing in Books", Count |-> Cardinality(mb)],
     [Category |-> "Missing in Portal", Count |-> Cardinality(mp)]}

\* whether a subset's sheet is written: `if len(subset) > 0:`
SheetWritten(rows) == Cardinality(rows) > 0

\* the workbook: the sheets written, each with its rows
Workbook(p, m, mb, mp) ==
    LET sheets == {"Summary"}
            \cup (IF SheetWritten(p) THEN {"Perfect_Match"} ELSE {})
            \cup (IF SheetWritten(m) THEN {"Value_Mismatch"} ELSE {})
            \cup (IF SheetWritten(mb) THEN {"Missing_in_Books"} ELSE {})
            \cup (IF SheetWritten(mp) THEN {"Missing_in_Portal"} ELSE {})
    IN  [sh \in sheets |->
            CASE sh = "Summary" -> SummarySheet(p, m, mb, mp)
              [] sh = "Perfect_Match" -> Export(p, PerfectExport)
              [] sh = "Value_Mismatch" -> Export(m, MismatchExport)
              [] sh = "Missing_in_Books" -> Export(mb, MissingBooksExport)
              [] sh = "Missing_in_Portal" -> Export(mp, MissingPortalExport)]

-----------------------------------------------------------------------------
(* The run: one action for each section of the script *)

NoTable == DataFrame({}, {})
NoReport == [sh \in {} |-> {}]

\* a section made of column assignments
Section(name, stmts, next) ==
    /\ pc = name
    /\ LET res == RunStatements(stmts, df_portal, df_books)
       IN  /\ df_portal' = res.portal
           /\ df_books' = res.books
           /\ error' = res.error
           /\ pc' = IF res.error = "none" THEN next ELSE "error"
           /\ ran' = IF res.error = "none" THEN Append(ran, name) ELSE ran
    /\ UNCHANGED <<portal_grouped, books_grouped, comparison, matched, perfect,
                   mismatch, missing_books, missing_portal, report>>
    /\ UNCHANGED cleanVars

InvoiceCleaning == Section("InvoiceCleaning", InvoiceCleaningStmts, "GstinCleaning")

GstinCleaning == Section("GstinCleaning", GstinCleaningStmts, "PrepareAmounts")

PrepareAmounts == Section("PrepareAmounts", PrepareAmountsStmts, "GroupDuplicates")

\* lines 80-103; .agg raises KeyError for a column the table lacks
GroupDuplicates ==
    /\ pc = "GroupDuplicates"
    /\ LET pOk == DOMAIN portal_agg \subseteq df_portal.columns
           bOk == DOMAIN books_agg \subseteq df_books.columns
       IN  /\ portal_grouped' = IF pOk THEN groupby_agg(df_portal, portal_agg)
                                ELSE portal_grouped
           /\ books_grouped' = IF pOk /\ bOk THEN groupby_agg(df_books, books_agg)
                               ELSE books_grouped
           /\ error' = IF pOk /\ bOk THEN "none" ELSE "KeyError"
           /\ pc' = IF pOk /\ bOk THEN "Merge" ELSE "error"
           /\ ran' = IF pOk /\ bOk THEN Append(ran, "GroupDuplicates") ELSE ran
    /\ UNCHANGED <<df_portal, df_books, comparison, matched, perfect, mismatch,
                   missing_books, missing_portal, report>>
    /\ UNCHANGED cleanVars

\* lines 105-122
Merge ==
    /\ pc = "Merge"
    /\ portal_grouped' = WithKey(portal_grouped)
    /\ books_grouped' = WithKey(books_grouped)
    /\ comparison' = {With(r, "Status", StatusOf(r["_merge"]))
                        : r \in merge_outer(portal_grouped', books_grouped')}
    /\ pc' = "Split"
    /\ ran' = Append(ran, "Merge")
    /\ UNCHANGED <<df_portal, df_books, matched, perfect, mismatch, missing_books,
                   missing_portal, report, error>>
    /\ UNCHANGED cleanVars

\* lines 124-136
Split ==
    /\ pc = "Split"
    /\ matched' = {Classify(r) : r \in {x \in comparison : x["Status"] = "MATCHED"}}
    /\ perfect' = {r \in matched' : r["Value_Status"] = "PERFECT"}
    /\ mismatch' = {r \in matched' : r["Value_Status"] = "MISMATCH"}
    /\ missing_books' = {r \in comparison : r["Status"] = "MISSING_IN_BOOKS"}
    /\ missing_portal' = {r \in comparison : r["Status"] = "MISSING_IN_PORTAL"}
    /\ pc' = "Report"
    /\ ran' = Append(ran, "Split")
    /\ UNCHANGED <<df_portal, df_books, portal_grouped, books_grouped, comparison,
                   report, error>>
    /\ UNCHANGED cleanVars

\* lines 149-223
Report ==
    /\ pc = "Report"
    /\ report' = Workbook(perfect, mismatch, missing_books, missing_portal)
    /\ pc' = "done"
    /\ ran' = Append(ran, "Report")
    /\ UNCHANGED <<df_portal, df_books, portal_grouped, books_grouped, comparison,
                   matched, perfect, mismatch, missing_books, missing_portal, error>>
    /\ UNCHANGED cleanVars

NextRun ==
    \/ InvoiceCleaning
    \/ GstinCleaning
    \/ PrepareAmounts
    \/ GroupDuplicates
    \/ Merge
    \/ Split
    \/ Report

-----------------------------------------------------------------------------
(* The uploads *)

SeqsUpTo(S, n) == UNION {[1..k -> S] : k \in 0..n}

PortalRow(gstin, inv, date, name, taxable, igst, cgst, sgst) ==
    ("GSTIN of supplier" :> gstin @@ "Invoice number" :> inv @@
     "Invoice Date" :> date @@ "Trade/Legal name" :> name @@
     "Taxable Value (₹)" :> taxable @@ "Integrated Tax(₹)" :> igst @@
     "Central Tax(₹)" :> cgst @@ "State/UT Tax(₹)" :> sgst)

BooksRow(gstin, inv, date, name, taxable, igst, cgst, sgst) ==
    ("VENDOR GSTIN" :> gstin @@ "VENDOR INVOICE NO" :> inv @@
     "DATE" :> date @@ "VENDOR NAME" :> name @@
     "TAXABLE VALUE" :> taxable @@ "IGST" :> igst @@
     "CGST" :> cgst @@ "SGST" :> sgst)

\* read_excel of a sheet that has the given columns and up to n of the rows
Tables(columns, rows, n) ==
    {DataFrame(columns, t) : t \in SeqsUpTo({[c \in columns |-> r[c]] : r \in rows}, n)}

\* the state once both files are loaded (line 52)
Loaded(portals, books) ==
    /\ pc = "InvoiceCleaning"
    /\ df_portal \in portals
    /\ df_books \in books
    /\ portal_grouped = NoTable
    /\ books_grouped = NoTable
    /\ comparison = {}
    /\ matched = {}
    /\ perfect = {}
    /\ mismatch = {}
    /\ missing_books = {}
    /\ missing_portal = {}
    /\ report = NoReport
    /\ error = "none"
    /\ ran = <<>>
    /\ invoice = <<>>
    /\ invoice_cleaned = NaN
    /\ recleaned = NaN
    /\ variant = <<>>
    /\ variant_cleaned = NaN

D1 == <<"2", "0", "2", "4">>
NameX == <<"X">>
NameY == <<"Y">>

(* Runs whose invoices and GSTINs vary: the join *)
JoinGstins == {<<"a">>, <<"a", "|">>}
JoinInvoices == {<<"7">>, <<"0", "7">>, <<"|", "7">>}

JoinPortalRows ==
    {PortalRow(g, i, D1, NameX, NumCell(214), NumCell(0), NumCell(0), NumCell(0))
        : g \in JoinGstins, i \in JoinInvoices}
JoinBooksRows ==
    {BooksRow(g, i, D1, NameY, t, NumCell(0), NumCell(0), NumCell(0))
        : g \in JoinGstins, i \in {<<"7">>, <<"|", "7">>},
          t \in {NumCell(214), NumCell(110)}}

InitJoin ==
    Loaded(Tables(PortalColumns, JoinPortalRows, MaxRows),
           Tables(BooksColumns, JoinBooksRows, MaxRows))

SpecJoin == InitJoin /\ [][NextRun]_vars

(* Runs on uploads that may lack one column *)
MalformedPortalRows ==
    {PortalRow(<<"a">>, <<"7">>, D1, NameX, NumCell(214), NumCell(0), NumCell(0),
               NumCell(0))}
MalformedBooksRows ==
    {BooksRow(<<"a">>, i, D1, NameY, NumCell(214), NumCell(0), NumCell(0), NumCell(0))
        : i \in {<<"7">>, <<"8">>}}

\* all the columns, or all but one
ColumnChoices(columns) == {columns} \cup {columns \ {c} : c \in columns}

InitMalformed ==
    \E pcols \in ColumnChoices(PortalColumns), bcols \in ColumnChoices(BooksColumns) :
        /\ pcols = PortalColumns \/ bcols = BooksColumns
        /\ Loaded(Tables(pcols, MalformedPortalRows, MaxBooksRows),
                  Tables(bcols, MalformedBooksRows, MaxBooksRows))

SpecMalformed == InitMalformed /\ [][NextRun]_vars

(* Runs whose amounts and key cells vary: the sums of the groups *)
SumKeyCells == {<<NaN, <<"7">>>>, <<<<"a">>, NaN>>, <<<<"a">>, <<"7">>>>}
SumPortalRows ==
    {PortalRow(k[1], k[2], D1, NameX, t, NumCell(0), NumCell(0), NumCell(0))
        : k \in SumKeyCells, t \in {NumCell(110), TextCell, NaNCell}}
SumBooksRows ==
    {BooksRow(g, <<"7">>, D1, NameY, t, NumCell(0), NumCell(0), NumCell(0))
        : g \in {NaN, <<"a">>}, t \in {NumCell(10)}}

InitSum ==
    Loaded(Tables(PortalColumns, SumPortalRows, MaxRows),
           Tables(BooksColumns, SumBooksRows, MaxBooksRows))

SpecSum == InitSum /\ [][NextRun]_vars

(* Runs whose names and dates vary: the representatives of the groups *)
FirstPortalRows ==
    {PortalRow(<<"a">>, i, d, nm, NumCell(110), NumCell(0), NumCell(0), NumCell(0))
        : i \in {<<"7">>, <<"0", "7">>, <<"8">>}, d \in {NaN, D1},
          nm \in {NaN, NameX, NameY}}
FirstBooksRows ==
    {BooksRow(<<"a">>, <<"7">>, d, nm, NumCell(110), NumCell(0), NumCell(0),
              NumCell(0))
        : d \in {NaN, D1}, nm \in {NaN, NameY}}

InitFirst ==
    Loaded(Tables(PortalColumns, FirstPortalRows, MaxRows),
           Tables(BooksColumns, FirstBooksRows, MaxBooksRows))

SpecFirst == InitFirst /\ [][NextRun]_vars

(* Runs of one invoice on both sides whose amounts vary: the tolerance *)
TolLow == 100      \* least books taxable value, in hundredths
TolSpan == 20      \* the values tried above the least
TolPortalRows ==
    {PortalRow(<<"a">>, <<"7">>, D1, NameX, NumCell(t), NumCell(g), NumCell(0),
               NumCell(0))
        : t \in (TolLow + 99)..(TolLow + 101 + TolSpan), g \in {0, 180, 281}}
TolBooksRows ==
    {BooksRow(<<"A">>, <<"0", "7">>, D1, NameY, NumCell(t), NumCell(0), NumCell(c),
              NumCell(c))
        : t \in TolLow..(TolLow + TolSpan), c \in {0, 90}}

OneRowTables(columns, rows) == {DataFrame(columns, <<r>>) : r \in rows}

InitTol ==
    Loaded(OneRowTables(PortalColumns, TolPortalRows),
           OneRowTables(BooksColumns, TolBooksRows))

SpecTol == InitTol /\ [][NextRun]_vars

-----------------------------------------------------------------------------
(* clean_invoice_number on its own *)

CleanAlphabet == {"a", "0", "-", TAB}

\* the harness calls the cleaner on a raw number and on its variant
Clean ==
    /\ pc = "raw"
    /\ invoice_cleaned' = clean_invoice_number(invoice)
    /\ variant_cleaned' = clean_invoice_number(variant)
    /\ pc' = "cleaned"
    /\ UNCHANGED <<invoice, variant, recleaned>>
    /\ UNCHANGED runVars

\* and on the cleaner's own result
Reclean ==
    /\ pc = "cleaned"
    /\ recleaned = NaN
    /\ recleaned' = clean_invoice_number(invoice_cleaned)
    /\ UNCHANGED <<pc, invoice, invoice_cleaned, variant, variant_cleaned>>
    /\ UNCHANGED runVars

\* the variant becomes w, and is cleaned
VaryTo(w) ==
    /\ pc = "cleaned"
    /\ Len(w) <= MaxLen + 1
    /\ variant' = w
    /\ variant_cleaned' = clean_invoice_number(w)
    /\ UNCHANGED <<pc, invoice, invoice_cleaned, recleaned>>
    /\ UNCHANGED runVars

InsertAt(s, i, c) == SubSeq(s, 1, i) \o <<c>> \o SubSeq(s, i + 1, Len(s))
DeleteAt(s, i) == SubSeq(s, 1, i - 1) \o SubSeq(s, i + 1, Len(s))

\* one more occurrence of a removed character, anywhere
InsertRemoved ==
    \E i \in 0..Len(variant), c \in CleanAlphabet \cap RemovedChars :
        VaryTo(InsertAt(variant, i, c))

\* one occurrence less of a removed character
DeleteRemoved ==
    \E i \in 1..Len(variant) :
        /\ variant[i] \in RemovedChars
        /\ VaryTo(DeleteAt(variant, i))

\* the case of one letter changed
SwapCase ==
    \E i \in 1..Len(variant) :
        /\ UpperChar(variant[i]) # LowerChar(variant[i])
        /\ VaryTo([variant EXCEPT ![i] =
                      IF @ = UpperChar(@) THEN LowerChar(@) ELSE UpperChar(@)])

\* one more leading zero
AddLeadingZero == VaryTo(<<"0">> \o variant)

\* one leading zero less
DropLeadingZero ==
    /\ Len(variant) > 0
    /\ variant[1] = "0"
    /\ VaryTo(Tail(variant))

InitClean ==
    /\ pc = "raw"
    /\ invoice \in TextsUpTo(CleanAlphabet, MaxLen)
    /\ variant = invoice
    /\ invoice_cleaned = NaN
    /\ recleaned = NaN
    /\ variant_cleaned = NaN
    /\ df_portal = NoTable
    /\ df_books = NoTable
    /\ portal_grouped = NoTable
    /\ books_grouped = NoTable
    /\ comparison = {}
    /\ matched = {}
    /\ perfect = {}
    /\ mismatch = {}
    /\ missing_books = {}
    /\ missing_portal = {}
    /\ report = NoReport
    /\ error = "none"
    /\ ran = <<>>

NextClean ==
    \/ Clean
    \/ Reclean
    \/ InsertRemoved
    \/ DeleteRemoved
    \/ SwapCase
    \/ AddLeadingZero
    \/ DropLeadingZero

SpecClean == InitClean /\ [][NextClean]_vars

-----------------------------------------------------------------------------
(* Properties *)

HasRun(name) == \E i \in DOMAIN ran : ran[i] = name

Five == {"Summary", "Perfect_Match", "Value_Mismatch", "Missing_in_Books",
         "Missing_in_Portal"}

KeysOf(df) == {r["Key"] : r \in df.rows}

AbsInt(x) == IF x < 0 THEN -x ELSE x

\* C1: once the run is done, every distinct composite key of either side has
\* exactly one comparison row, MATCHED when the key is on both sides,
\* MISSING_IN_BOOKS when only in portal, MISSING_IN_PORTAL when only in books,
\* and the four subsets together have as many rows as there are distinct keys.
JoinTotality ==
    pc = "done" =>
        LET pk == KeysOf(portal_grouped)
            bk == KeysOf(books_grouped)
        IN  /\ Cardinality(perfect) + Cardinality(mismatch)
                 + Cardinality(missing_books) + Cardinality(missing_portal)
               = Cardinality(pk \cup bk)
            /\ \A k \in pk \cup bk :
                 /\ Cardinality({r \in comparison : r["Key"] = k}) = 1
                 /\ \A r \in comparison : r["Key"] = k =>
                      r["Status"] = IF k \in pk /\ k \in bk THEN "MATCHED"
                                    ELSE IF k \in pk THEN "MISSING_IN_BOOKS"
                                    ELSE "MISSING_IN_PORTAL"

\* the cleaned pair and the key of every aggregated row of both sides
KeyedPairs ==
    {<<r["GSTIN_Clean"], r["Invoice_Clean"], r["Key"]>> : r \in portal_grouped.rows}
    \cup {<<r["GSTIN_Clean"], r["Invoice_Clean"], r["Key"]>> : r \in books_grouped.rows}

\* C2: "|" is in no cleaned GSTIN and no cleaned invoice number, and two
\* aggregated rows have the same composite key only if their cleaned GSTINs
\* are equal and their cleaned invoice numbers are equal.
KeyInjective ==
    HasRun("Merge") =>
        /\ \A a \in KeyedPairs :
             /\ \A i \in DOMAIN a[1] : a[1][i] # "|"
             /\ \A i \in DOMAIN a[2] : a[2][i] # "|"
        /\ \A a, b \in KeyedPairs : a[3] = b[3] => a[1] = b[1] /\ a[2] = b[2]

\* a composite key on more than one row of one side
DuplicateKey(df) == \E a, b \in df.rows : a # b /\ a["Key"] = b["Key"]

\* C3: when a composite key is on more than one aggregated row of one side,
\* the merge raises an error, the run ends there and no report is written.
DuplicateKeyRaises ==
    (HasRun("Merge") /\ (DuplicateKey(portal_grouped) \/ DuplicateKey(books_grouped)))
        => (error # "none" /\ report = NoReport)

\* C4: a MATCHED row is PERFECT exactly when the taxable values differ by at
\* most 1.00 and the total taxes differ by at most 1.00, taken to two decimals.
ToleranceRule ==
    \A r \in matched :
        r["Value_Status"] = "PERFECT"
        <=> /\ AbsInt(Paise(r["Taxable_P"]) - Paise(r["Taxable_B"])) <= 100
            /\ AbsInt(Paise(r["TotalGST_P"]) - Paise(r["TotalGST_B"])) <= 100

\* C5: cleaning a cleaned invoice number gives it back unchanged.
CleanIdempotent == recleaned # NaN => recleaned = invoice_cleaned

\* C6: raw invoice numbers that differ only in letter case, in occurrences of
\* removed characters or in leading zeros clean to the same text; the result is
\* never empty, and is "0" for an input of zeros and removed characters only.
CleanEquivalence ==
    pc = "cleaned" =>
        /\ variant_cleaned = invoice_cleaned
        /\ invoice_cleaned # <<>>
        /\ (\A i \in DOMAIN invoice : invoice[i] \in RemovedChars \cup {"0"})
              => invoice_cleaned = <<"0">>

RECURSIVE SumPaise(_, _)
SumPaise(rows, col) ==
    IF rows = {} THEN 0
    ELSE LET r == CHOOSE x \in rows : TRUE
         IN  Paise(r[col]) + SumPaise(rows \ {r}, col)

\* the raw amounts of a column, text and missing cells counting 0, in hundredths
RECURSIVE SumRaw(_, _)
SumRaw(rows, col) ==
    IF rows = <<>> THEN 0
    ELSE (IF Head(rows)[col].t = "float" THEN Head(rows)[col].paise ELSE 0)
         + SumRaw(Tail(rows), col)

\* C7: for each source, the Taxable of the aggregated rows add up, to two
\* decimals, to the raw rows' taxable values with text and missing cells
\* counted as 0; rows whose GSTIN or invoice number is missing are included.
SumPreserved ==
    HasRun("GroupDuplicates") =>
        /\ SumPaise(portal_grouped.rows, "Taxable")
             = SumRaw(df_portal.rows, "Taxable Value (₹)")
        /\ SumPaise(books_grouped.rows, "Taxable")
             = SumRaw(df_books.rows, "TAXABLE VALUE")

\* a run past the grouping in which two portal rows form one group, one of them
\* without GSTIN or invoice number in every row, one amount a number and the
\* other text or missing
SumPreservedWitness ==
    /\ HasRun("GroupDuplicates")
    /\ Len(df_portal.rows) = 2
    /\ Cardinality(portal_grouped.rows) = 1
    /\ \E i \in 1..2 : \/ df_portal.rows[i]["GSTIN of supplier"] = NaN
                       \/ df_portal.rows[i]["Invoice number"] = NaN
    /\ \E i, j \in 1..2 :
          /\ df_portal.rows[i]["Taxable Value (₹)"].t = "float"
          /\ df_portal.rows[j]["Taxable Value (₹)"].t # "float"
    /\ Len(df_books.rows) = 1

\* C8: a finished run has written all five sheets, the sheet of an empty
\* subset included.
FiveTables == pc = "done" => DOMAIN report = Five

\* C9: when a required column is absent the run ends in an error before any
\* section has run on either table, and nothing is written.
FailFast ==
    /\ (df_portal.columns \cap PortalColumns # PortalColumns
          \/ df_books.columns \cap BooksColumns # BooksColumns)
         => pc # "done" /\ report = NoReport
    /\ error # "none" =>
         /\ ran = <<>>
         /\ df_portal.columns \subseteq PortalColumns
         /\ df_books.columns \subseteq BooksColumns
         /\ portal_grouped = NoTable
         /\ books_grouped = NoTable
         /\ report = NoReport

\* the first row of the table with the group key of the aggregated row g
FirstOfGroup(df, g) ==
    df.rows[CHOOSE i \in 1..Len(df.rows) :
               /\ KeyOf(df.rows[i]) = KeyOf(g)
               /\ \A j \in 1..Len(df.rows) : KeyOf(df.rows[j]) = KeyOf(g) => i <= j]

\* C10: the name, the date and the original invoice text of every aggregated
\* row are those of the first raw row of its group, null or not.
FirstSeen ==
    HasRun("GroupDuplicates") =>
        /\ \A g \in portal_grouped.rows :
             LET f == FirstOfGroup(df_portal, g)
             IN  /\ g["Trade/Legal name"] = f["Trade/Legal name"]
                 /\ g["Invoice Date"] = f["Invoice Date"]
                 /\ g["Invoice_Original"] = Str(f["Invoice number"])
        /\ \A g \in books_grouped.rows :
             LET f == FirstOfGroup(df_books, g)
             IN  /\ g["VENDOR NAME"] = f["VENDOR NAME"]
                 /\ g["DATE"] = f["DATE"]
                 /\ g["Invoice_Original"] = Str(f["VENDOR INVOICE NO"])

=============================================================================
